---- MODULE Spec2Model ----
(***************************************************************************)
(* The iron-borrowing ledger of the hostel-management backend, in its two  *)
(* implementations:                                                        *)
(*   - the router (routes/index.js) over DatabaseManager.borrowIron /      *)
(*     returnIron (database/index.js), persisted to ironBorrowing.json;    *)
(*   - the standalone server (server.js) with inline route logic over an   *)
(*     in-memory array.                                                    *)
(* Every request handler is synchronous JavaScript, so one handler is one  *)
(* atomic step of the event loop.                                          *)
(*                                                                         *)
(* Spec     the routes of both programs on many request bodies, with the   *)
(*          clock, the auto-save timer and the SIGINT handler;             *)
(* SpecSeq  longer sequences of well-formed borrow and return requests;    *)
(* SpecDb   the methods of DatabaseManager on its other arrays, next to    *)
(*          borrows and returns.                                           *)
(***************************************************************************)
EXTENDS Integers, Sequences, FiniteSets, TLC

\* ------------------------------------------------------------------ bounds
\* Number of irons the DatabaseManager seeds (the source seeds 20).
NumIrons == 2
\* Requests handled in one behaviour.
MaxRequests == 2
\* Clock advances between requests in one behaviour.
MaxTicks == 1
\* JavaScript numbers are held as multiples of 1/Denom.
Denom == 2
\* Hours by which one clock advance moves the clock.
TickHours == 2
\* Requests handled in one behaviour of the specification of request sequences.
MaxSeqRequests == 3
\* DatabaseManager calls in one behaviour of the specification of its methods.
MaxDbCalls == 2

\* --------------------------------------------------------------- constants
MsPerHour == 3600000
DefaultHours == 4

\* -------------------------------------------------------- JavaScript values
JSV(t, n, s) == [t |-> t, n |-> n, s |-> s]
Undefined == JSV("undefined", 0, "")
Null == JSV("null", 0, "")
NaN == JSV("nan", 0, "")
\* the number n / Denom
Num(n) == JSV("number", n, "")
Whole(k) == Num(k * Denom)
Str(s) == JSV("string", 0, s)
\* new Date(ms)
Date(ms) == JSV("date", ms, "")
InvalidDate == JSV("invalid-date", 0, "")
Bool(b) == JSV("boolean", IF b THEN 1 ELSE 0, "")

\* ToBoolean
Truthy(v) ==
    CASE v.t = "undefined" -> FALSE
      [] v.t = "null" -> FALSE
      [] v.t = "nan" -> FALSE
      [] v.t = "number" -> v.n # 0
      [] v.t = "string" -> v.s # ""
      [] v.t = "boolean" -> v.n # 0
      [] OTHER -> TRUE

\* x || y
Or(x, y) == IF Truthy(x) THEN x ELSE y

\* The strings of the model that read as a number, with the number they read as.
NumericStrings == {"2"}
StringValue(s) == CASE s = "2" -> 2 [] OTHER -> 0

Trunc(n) == IF n >= 0 THEN n \div Denom ELSE -((-n) \div Denom)

\* parseInt(v): the integer prefix of String(v), NaN when there is none.
parseInt(v) ==
    CASE v.t = "number" -> Whole(Trunc(v.n))
      [] v.t = "string" /\ v.s \in NumericStrings -> Whole(StringValue(v.s))
      [] OTHER -> NaN

\* ToNumber, as applied by the * operator.
ToNumber(v) ==
    CASE v.t = "number" -> v
      [] v.t = "string" /\ v.s \in NumericStrings -> Whole(StringValue(v.s))
      [] v.t = "string" /\ v.s = "" -> Whole(0)
      [] v.t = "null" -> Whole(0)
      [] OTHER -> NaN

\* new Date(t + hours * 60 * 60 * 1000) for a clock reading t
DateAfter(t, hours) ==
    LET h == ToNumber(hours)
    IN  IF h.t = "number" THEN Date(t + (h.n * MsPerHour) \div Denom) ELSE InvalidDate

\* ------------------------------------------------------------------- state
VARIABLES
    impl,           \* the program of this behaviour: "router" or "server"
    ironBorrowing,  \* DatabaseManager.database.ironBorrowing
    ironFile,       \* the contents of data/ironBorrowing.json
    srvIrons,       \* database.ironBorrowing of the standalone server
    now,            \* the wall clock, in ms
    ticks,          \* clock advances so far
    nreq,           \* requests handled so far
    last,           \* the last request with its response
    running,        \* the process has not exited
    writable,       \* fs.writeFileSync into the data directory succeeds
    trail,          \* the requests so far, where a specification keeps them
    dcs,            \* DatabaseManager.database.dcs
    students,       \* DatabaseManager.database.students
    complaints,     \* DatabaseManager.database.complaints
    attendance,     \* DatabaseManager.database.attendance
    dataFiles,      \* dcs.json, students.json, complaints.json, attendance.json
    pending,        \* the registrations waiting for bcrypt.hash
    requests        \* the Map of one rateLimit middleware: client -> arrival times

collections == <<dcs, students, complaints, attendance>>
web == <<pending, requests>>

vars ==
    <<impl, ironBorrowing, ironFile, srvIrons, now, ticks, nreq, last, running, writable,
      trail, collections, dataFiles, web>>

\* ------------------------------------------------------------ unit records
Iron(id, available, borrowedBy, borrowedAt, returnBy, room) ==
    [ironId |-> id, available |-> available, borrowedBy |-> borrowedBy,
     borrowedAt |-> borrowedAt, returnBy |-> returnBy, room |-> room]

\* getDefaultIrons: five independent Math.random() draws per iron; a draw in
\* `low` came out at or below 0.3.  t is the clock at construction.
SeedIron(i, low, t) ==
    Iron(i,
         <<i, 1>> \notin low,
         IF <<i, 2>> \in low THEN Str("Student") ELSE Null,
         IF <<i, 3>> \in low THEN Date(t) ELSE Null,
         IF <<i, 4>> \in low THEN Date(t + DefaultHours * MsPerHour) ELSE Null,
         IF <<i, 5>> \in low THEN Str("101") ELSE Null)

getDefaultIrons(low, t) == [i \in 1..NumIrons |-> SeedIron(i, low, t)]

\* The literal database.ironBorrowing of the standalone server; its records
\* have no room field.
ServerSeed(t) ==
    << Iron(1, TRUE, Null, Null, Null, Undefined),
       Iron(2, TRUE, Null, Null, Null, Undefined),
       Iron(3, FALSE, Str("John Doe"), Date(t), Date(t + 4 * MsPerHour), Undefined),
       Iron(4, TRUE, Null, Null, Null, Undefined),
       Iron(5, FALSE, Str("Jane Smith"), Date(t), Date(t + 2 * MsPerHour), Undefined) >>

\* JSON.stringify of one value: a Date becomes its ISO string, an invalid Date
\* null; an undefined field is left out, which reads back as undefined.
Stringify(v) ==
    CASE v.t = "date" -> JSV("iso-string", v.n, "")
      [] v.t = "invalid-date" -> Null
      [] v.t = "nan" -> Null
      [] OTHER -> v

StringifyIron(r) ==
    Iron(r.ironId, r.available, Stringify(r.borrowedBy), Stringify(r.borrowedAt),
         Stringify(r.returnBy), Stringify(r.room))

\* saveData('ironBorrowing.json', data): the new contents of the file
saveData(data) == [i \in 1..Len(data) |-> StringifyIron(data[i])]

\* data/ironBorrowing.json does not exist.  (An empty array is never written:
\* no seed is empty and no operation removes a unit.)
NoFile == << >>

\* The file after saveData(filename, data): written, or as it was when
\* writeFileSync throws, which saveData catches and only logs.
Saved(file, data) == IF writable THEN saveData(data) ELSE file

\* irons.find(i => i.ironId === id): the index of the first match, 0 for none
Find(irons, id) ==
    IF id.t = "number" /\ \E i \in 1..Len(irons) : irons[i].ironId * Denom = id.n
    THEN CHOOSE i \in 1..Len(irons) :
            /\ irons[i].ironId * Denom = id.n
            /\ \A j \in 1..(i - 1) : irons[j].ironId * Denom # id.n
    ELSE 0

\* A count of the borrowed irons that looks at the holder instead of the flag.
CountBorrowed_ByHolder(irons) ==
    Cardinality({i \in 1..Len(irons) : irons[i].borrowedBy.t # "null"})

\* irons.filter(i => i.available).length and irons.filter(i => !i.available).length
CountAvailable(irons) == Cardinality({i \in 1..Len(irons) : irons[i].available})
CountBorrowed(irons) == Cardinality({i \in 1..Len(irons) : ~irons[i].available})

\* ------------------------------------------------------------------ inputs
\* An id no seed holds, and the id of an iron the server's seed holds as borrowed.
UnknownId == 99
SeedBorrowedId == 3
\* absent, 0, -1, an unknown id, and the ids of the seeds
IronIdInputs ==
    {Undefined, Whole(0), Whole(-1), Whole(UnknownId), Whole(SeedBorrowedId)}
    \cup {Whole(k) : k \in 1..NumIrons}
NameInputs == {Undefined, Str(""), Str("Alice"), Str("Bob")}
\* absent, -1, 0, 1/Denom, 1, 1 + 1/Denom, and a string that is no number
DurationInputs ==
    {Undefined, Str("abc")} \cup {Num(n) : n \in {-Denom, 0, 1, Denom, Denom + 1}}

Body(ironId, borrowerName, room, duration) ==
    [ironId |-> ironId, borrowerName |-> borrowerName, room |-> room,
     duration |-> duration]

\* The request bodies of a borrow: every holder on iron 1 and on the unknown
\* id, every id for one holder, and every duration (without a room) on iron 1.
BorrowInputs ==
    {Body(id, name, Str("Room 101"), Undefined) :
        id \in {Whole(1), Whole(UnknownId)}, name \in NameInputs}
    \cup {Body(id, Str("Alice"), Str("Room 101"), Undefined) : id \in IronIdInputs}
    \cup {Body(Whole(1), Str("Alice"), Undefined, d) : d \in DurationInputs}

\* --------------------------------------------------------------- responses
\* A request with what the unit it names was before it (target is the index of
\* the unit parseInt(ironId) finds, 0 for none), and the response's kind.
Request(prog, op, body, irons) ==
    LET k == Find(irons, parseInt(body.ironId))
    IN  [impl |-> prog, op |-> op, body |-> body, kind |-> "none",
         target |-> k, wasAvail |-> IF k = 0 THEN FALSE ELSE irons[k].available,
         total |-> 0, available |-> 0, borrowed |-> 0, irons |-> << >>]

NoBody == Body(Undefined, Undefined, Undefined, Undefined)
NoRequest == Request("none", "none", NoBody, <<>>)

Respond(req, kind) == [req EXCEPT !.kind = kind]

\* JSON.stringify of an array of records other than irons
saveRows(data) ==
    [i \in 1..Len(data) |-> [f \in DOMAIN data[i] |-> Stringify(data[i][f])]]

\* saveData(filename, data) for those arrays
SavedRows(file, data) == IF writable THEN saveRows(data) ELSE file

\* getDefaultStudents and getDefaultComplaints, with the fields the methods
\* below read or write.
getDefaultStudents ==
    << [id |-> Whole(1), name |-> Str("Rahul Sharma"), present |-> Bool(TRUE)],
       [id |-> Whole(2), name |-> Str("Priya Singh"), present |-> Bool(TRUE)],
       [id |-> Whole(3), name |-> Str("Amit Kumar"), present |-> Bool(FALSE)],
       [id |-> Whole(4), name |-> Str("Sneha Patel"), present |-> Bool(TRUE)],
       [id |-> Whole(5), name |-> Str("Vikash Yadav"), present |-> Bool(TRUE)] >>

Complaint(id, title, status, timestamp, updatedAt) ==
    [id |-> id, title |-> title, status |-> status, timestamp |-> timestamp,
     updatedAt |-> updatedAt]

getDefaultComplaints(t) ==
    << Complaint(Whole(1), Str("Room 205 - AC Not Working"), Str("Open"), Date(t),
                 Undefined),
       Complaint(Whole(2), Str("Mess Food Quality"), Str("Open"), Date(t), Undefined),
       Complaint(Whole(3), Str("WiFi Connection Issues"), Str("Open"), Date(t),
                 Undefined) >>

\* The outcomes of the Math.random() draws of getDefaultIrons: the set of the
\* draws <<iron, field>> that come out at or below 0.3; none, or one.
LowDrawInputs == {{}} \cup {{d} : d \in (1..NumIrons) \X (1..5)}

\* -------------------------------------------------------------------- Init
\* new Map()
NoRequests == [c \in {} |-> << >>]

Init ==
    /\ impl \in {"router", "server"}
    /\ now = 0
    /\ ticks = 0
    /\ nreq = 0
    /\ \E low \in LowDrawInputs :
          /\ impl = "server" => low = {}
          /\ ironBorrowing = getDefaultIrons(low, now)
    /\ writable \in BOOLEAN
    /\ impl = "server" => writable
    /\ ironFile = IF impl = "router" THEN Saved(NoFile, ironBorrowing) ELSE NoFile
    /\ srvIrons = ServerSeed(now)
    /\ last = NoRequest
    /\ running = TRUE
    /\ pending = {}
    /\ requests = NoRequests
    /\ trail = << >>
    /\ dcs = << >>
    /\ students = getDefaultStudents
    /\ complaints = getDefaultComplaints(now)
    /\ attendance = << >>
    /\ dataFiles =
          IF impl = "router"
          THEN [dcs |-> SavedRows(NoFile, dcs), students |-> SavedRows(NoFile, students),
                complaints |-> SavedRows(NoFile, complaints),
                attendance |-> SavedRows(NoFile, attendance)]
          ELSE [dcs |-> NoFile, students |-> NoFile, complaints |-> NoFile,
                attendance |-> NoFile]

\* A clock advance with a sweeper that frees the units whose returnBy passed.
Sweep(irons, t) ==
    [i \in 1..Len(irons) |->
        IF ~irons[i].available /\ irons[i].returnBy.t = "date" /\ irons[i].returnBy.n < t
        THEN Iron(irons[i].ironId, TRUE, Null, Null, Null, Null)
        ELSE irons[i]]

Tick_Sweep ==
    /\ running
    /\ ticks < MaxTicks
    /\ now' = now + TickHours * MsPerHour
    /\ ticks' = ticks + 1
    /\ ironBorrowing' = Sweep(ironBorrowing, now')
    /\ srvIrons' = Sweep(srvIrons, now')
    /\ UNCHANGED <<web, impl, ironFile, nreq, last, running, writable, trail, collections,
                   dataFiles>>

\* The wall clock advances between two requests.
Tick ==
    /\ running
    /\ ticks < MaxTicks
    /\ now' = now + TickHours * MsPerHour
    /\ ticks' = ticks + 1
    /\ UNCHANGED <<web, impl, ironBorrowing, ironFile, srvIrons, nreq, last, running,
                   writable, trail, collections, dataFiles>>

\* The clock is read twice, by new Date() and by Date.now(), and only where a
\* borrow checks the unit out: the second read sees the same millisecond or the
\* next one.
ClockSkews == {0, 1}

Skews(irons, body) ==
    LET k == Find(irons, parseInt(body.ironId))
    IN  IF Truthy(body.ironId) /\ Truthy(body.borrowerName) /\ k # 0 /\ irons[k].available
        THEN ClockSkews
        ELSE {0}

\* ---------------------------------------------------------- DatabaseManager
\* borrowIron(ironId, borrowerData); t1 is the clock read by new Date(), t2 the
\* one read by Date.now().  The result is the array after the call.
\* A borrow that does not test the available flag.
borrowIron_Overwrite(irons, ironId, borrowerData, t1, t2) ==
    LET k == Find(irons, ironId)
    IN  IF k # 0
        THEN [irons EXCEPT ![k] =
                Iron(irons[k].ironId, FALSE, borrowerData.borrowerName, Date(t1),
                     DateAfter(t2, Or(borrowerData.duration, Whole(DefaultHours))),
                     borrowerData.room)]
        ELSE irons

borrowIron(irons, ironId, borrowerData, t1, t2) ==
    LET k == Find(irons, ironId)
    IN  IF k # 0 /\ irons[k].available
        THEN [irons EXCEPT ![k] =
                Iron(irons[k].ironId, FALSE, borrowerData.borrowerName, Date(t1),
                     DateAfter(t2, Or(borrowerData.duration, Whole(DefaultHours))),
                     borrowerData.room)]
        ELSE irons

\* A return that forgets to clear the holder.
returnIron_KeepHolder(irons, ironId) ==
    LET k == Find(irons, ironId)
    IN  IF k # 0 /\ ~irons[k].available
        THEN [irons EXCEPT ![k] =
                Iron(irons[k].ironId, TRUE, irons[k].borrowedBy, Null, Null, Null)]
        ELSE irons

\* A return that takes the returned unit out of the array.
returnIron_Drop(irons, ironId) ==
    LET k == Find(irons, ironId)
    IN  IF k # 0 /\ ~irons[k].available
        THEN SubSeq(irons, 1, k - 1) \o SubSeq(irons, k + 1, Len(irons))
        ELSE irons

returnIron(irons, ironId) ==
    LET k == Find(irons, ironId)
    IN  IF k # 0 /\ ~irons[k].available
        THEN [irons EXCEPT ![k] = Iron(irons[k].ironId, TRUE, Null, Null, Null, Null)]
        ELSE irons

\* ------------------------------------------------------------------ router
\* The response of router.post('/iron-borrowing/borrow') given the array after
\* borrowIron: the handler tests the iron borrowIron returned, which is the
\* record of the array itself.
RouterBorrowKind(body, after) ==
    LET k == Find(after, parseInt(body.ironId))
    IN  CASE ~Truthy(body.ironId) \/ ~Truthy(body.borrowerName) -> "invalid"
          [] k = 0 -> "notfound"
          [] ~after[k].available -> "already"
          [] OTHER -> "success"

\* The array after router.post('/iron-borrowing/borrow'): borrowIron is called
\* once the two required fields are there.
RouterBorrowEffect(body, irons, t1, t2) ==
    IF Truthy(body.ironId) /\ Truthy(body.borrowerName)
    THEN borrowIron(irons, parseInt(body.ironId),
                    [borrowerName |-> body.borrowerName,
                     room |-> Or(body.room, Str("")),
                     duration |-> Or(parseInt(body.duration), Whole(DefaultHours))],
                    t1, t2)
    ELSE irons

RouterBorrowOn(bodies, limit) ==
    /\ running
    /\ impl = "router"
    /\ nreq < limit
    /\ \E body \in bodies : \E skew \in Skews(ironBorrowing, body) :
          LET after == RouterBorrowEffect(body, ironBorrowing, now, now + skew)
          IN  /\ ironBorrowing' = after
              /\ ironFile' = IF after # ironBorrowing
                             THEN Saved(ironFile, after)
                             ELSE ironFile
              /\ now' = IF after # ironBorrowing THEN now + skew ELSE now
              /\ last' = Respond(Request("router", "borrow", body, ironBorrowing),
                                 RouterBorrowKind(body, after))
    /\ nreq' = nreq + 1
    /\ UNCHANGED <<web, impl, srvIrons, ticks, running, writable, collections, dataFiles>>

RouterBorrow == RouterBorrowOn(BorrowInputs, MaxRequests) /\ UNCHANGED trail

\* A return route that does not look at what returnIron found.
RouterReturnKind_NoLookup(body, after) ==
    CASE ~Truthy(body.ironId) -> "invalid"
      [] OTHER -> "success"

RouterReturnKind(body, after) ==
    LET k == Find(after, parseInt(body.ironId))
    IN  CASE ~Truthy(body.ironId) -> "invalid"
          [] k = 0 -> "notfound"
          [] OTHER -> "success"

\* The array after router.post('/iron-borrowing/return')
RouterReturnEffect(body, irons) ==
    IF Truthy(body.ironId) THEN returnIron(irons, parseInt(body.ironId)) ELSE irons

RouterReturnOn(ids, limit) ==
    /\ running
    /\ impl = "router"
    /\ nreq < limit
    /\ \E ironId \in ids :
          LET body == Body(ironId, Undefined, Undefined, Undefined)
              after == RouterReturnEffect(body, ironBorrowing)
          IN  /\ ironBorrowing' = after
              /\ ironFile' = IF after # ironBorrowing
                             THEN Saved(ironFile, after)
                             ELSE ironFile
              /\ last' = Respond(Request("router", "return", body, ironBorrowing),
                                 RouterReturnKind(body, after))
    /\ nreq' = nreq + 1
    /\ UNCHANGED <<web, impl, srvIrons, now, ticks, running, writable, collections, dataFiles>>

RouterReturn == RouterReturnOn(IronIdInputs, MaxRequests) /\ UNCHANGED trail

\* The summary of router.get('/iron-borrowing')
Summary(irons) ==
    [total |-> Len(irons), available |-> CountAvailable(irons),
     borrowed |-> CountBorrowed(irons)]

\* A list read that returns the units last to first.
RouterList_Reversed ==
    /\ running
    /\ impl = "router"
    /\ nreq < MaxRequests
    /\ last' = [Request("router", "list", NoBody, ironBorrowing) EXCEPT
                  !.kind = "success",
                  !.total = Summary(ironBorrowing).total,
                  !.available = Summary(ironBorrowing).available,
                  !.borrowed = Summary(ironBorrowing).borrowed,
                  !.irons = [i \in 1..Len(ironBorrowing) |->
                                ironBorrowing[Len(ironBorrowing) + 1 - i]]]
    /\ nreq' = nreq + 1
    /\ UNCHANGED <<web, impl, ironBorrowing, ironFile, srvIrons, now, ticks, running,
                   writable, trail, collections, dataFiles>>

RouterList ==
    /\ running
    /\ impl = "router"
    /\ nreq < MaxRequests
    /\ last' = [Request("router", "list", NoBody, ironBorrowing) EXCEPT
                  !.kind = "success",
                  !.total = Summary(ironBorrowing).total,
                  !.available = Summary(ironBorrowing).available,
                  !.borrowed = Summary(ironBorrowing).borrowed,
                  !.irons = ironBorrowing]
    /\ nreq' = nreq + 1
    /\ UNCHANGED <<web, impl, ironBorrowing, ironFile, srvIrons, now, ticks, running,
                   writable, trail, collections, dataFiles>>

\* The iron counts of getStatistics, and of the standalone server's
\* /api/dashboard/stats.
getStatistics(irons) ==
    [ironsBorrowed |-> CountBorrowed(irons), availableIrons |-> CountAvailable(irons)]

RouterStats ==
    /\ running
    /\ impl = "router"
    /\ nreq < MaxRequests
    /\ last' = [Request("router", "stats", NoBody, ironBorrowing) EXCEPT
                  !.kind = "success",
                  !.available = getStatistics(ironBorrowing).availableIrons,
                  !.borrowed = getStatistics(ironBorrowing).ironsBorrowed]
    /\ nreq' = nreq + 1
    /\ UNCHANGED <<web, impl, ironBorrowing, ironFile, srvIrons, now, ticks, running,
                   writable, trail, collections, dataFiles>>

\* ------------------------------------------------------- standalone server
\* app.post('/api/iron-borrowing/borrow'): the response and the array after it
ServerBorrowKind(body, irons) ==
    LET k == Find(irons, parseInt(body.ironId))
    IN  CASE ~Truthy(body.ironId) \/ ~Truthy(body.borrowerName) -> "invalid"
          [] k = 0 -> "notfound"
          [] ~irons[k].available -> "already"
          [] OTHER -> "success"

ServerBorrowEffect(body, irons, t1, t2) ==
    LET k == Find(irons, parseInt(body.ironId))
    IN  IF ServerBorrowKind(body, irons) = "success"
        THEN [irons EXCEPT ![k] =
                Iron(irons[k].ironId, FALSE, body.borrowerName, Date(t1),
                     DateAfter(t2, Or(body.duration, Whole(DefaultHours))),
                     body.room)]
        ELSE irons

ServerBorrowOn(bodies, limit) ==
    /\ running
    /\ impl = "server"
    /\ nreq < limit
    /\ \E body \in bodies : \E skew \in Skews(srvIrons, body) :
          LET after == ServerBorrowEffect(body, srvIrons, now, now + skew)
          IN  /\ srvIrons' = after
              /\ now' = IF after # srvIrons THEN now + skew ELSE now
              /\ last' = Respond(Request("server", "borrow", body, srvIrons),
                                 ServerBorrowKind(body, srvIrons))
    /\ nreq' = nreq + 1
    /\ UNCHANGED <<web, impl, ironBorrowing, ironFile, ticks, running, writable,
                   collections, dataFiles>>

ServerBorrow == ServerBorrowOn(BorrowInputs, MaxRequests) /\ UNCHANGED trail

\* app.post('/api/iron-borrowing/return')
\* A return route that gives a unit back for one holder only.
ServerReturnKind_OwnHolder(body, irons) ==
    LET k == Find(irons, parseInt(body.ironId))
    IN  CASE ~Truthy(body.ironId) -> "invalid"
          [] k = 0 -> "notfound"
          [] irons[k].available -> "notborrowed"
          [] irons[k].borrowedBy # Str("Alice") -> "forbidden"
          [] OTHER -> "success"

ServerReturnKind(body, irons) ==
    LET k == Find(irons, parseInt(body.ironId))
    IN  CASE ~Truthy(body.ironId) -> "invalid"
          [] k = 0 -> "notfound"
          [] irons[k].available -> "notborrowed"
          [] OTHER -> "success"

ServerReturnEffect(body, irons) ==
    LET k == Find(irons, parseInt(body.ironId))
    IN  IF ServerReturnKind(body, irons) = "success"
        THEN [irons EXCEPT ![k] = Iron(irons[k].ironId, TRUE, Null, Null, Null, Null)]
        ELSE irons

ServerReturnOn(ids, limit) ==
    /\ running
    /\ impl = "server"
    /\ nreq < limit
    /\ \E ironId \in ids :
          LET body == Body(ironId, Undefined, Undefined, Undefined)
          IN  /\ srvIrons' = ServerReturnEffect(body, srvIrons)
              /\ last' = Respond(Request("server", "return", body, srvIrons),
                                 ServerReturnKind(body, srvIrons))
    /\ nreq' = nreq + 1
    /\ UNCHANGED <<web, impl, ironBorrowing, ironFile, now, ticks, running, writable,
                   collections, dataFiles>>

ServerReturn == ServerReturnOn(IronIdInputs, MaxRequests) /\ UNCHANGED trail

\* app.get('/api/iron-borrowing'): the array, without a summary
ServerList ==
    /\ running
    /\ impl = "server"
    /\ nreq < MaxRequests
    /\ last' = [Request("server", "list", NoBody, srvIrons) EXCEPT
                  !.kind = "success",
                  !.irons = srvIrons]
    /\ nreq' = nreq + 1
    /\ UNCHANGED <<web, impl, ironBorrowing, ironFile, srvIrons, now, ticks, running,
                   writable, trail, collections, dataFiles>>

ServerStats ==
    /\ running
    /\ impl = "server"
    /\ nreq < MaxRequests
    /\ last' = [Request("server", "stats", NoBody, srvIrons) EXCEPT
                  !.kind = "success",
                  !.available = getStatistics(srvIrons).availableIrons,
                  !.borrowed = getStatistics(srvIrons).ironsBorrowed]
    /\ nreq' = nreq + 1
    /\ UNCHANGED <<web, impl, ironBorrowing, ironFile, srvIrons, now, ticks, running,
                   writable, trail, collections, dataFiles>>

\* saveAll(), for the unit file: one more saveData of the array
saveAll(file, irons) == Saved(file, irons)

\* saveAll(), for the other four files
saveAllRows(files) ==
    [dcs |-> SavedRows(files.dcs, dcs), students |-> SavedRows(files.students, students),
     complaints |-> SavedRows(files.complaints, complaints),
     attendance |-> SavedRows(files.attendance, attendance)]

\* setInterval(() => dbManager.saveAll(), 5 * 60 * 1000)
SaveAllTimer ==
    /\ running
    /\ impl = "router"
    /\ ironFile' = saveAll(ironFile, ironBorrowing)
    /\ dataFiles' = saveAllRows(dataFiles)
    /\ UNCHANGED <<web, impl, ironBorrowing, srvIrons, now, ticks, nreq, last, running,
                   writable, trail, collections>>

\* process.on('SIGINT', ...): saveAll(), then process.exit(0)
Sigint ==
    /\ running
    /\ impl = "router"
    /\ ironFile' = saveAll(ironFile, ironBorrowing)
    /\ dataFiles' = saveAllRows(dataFiles)
    /\ running' = FALSE
    /\ UNCHANGED <<web, impl, ironBorrowing, srvIrons, now, ticks, nreq, last, writable, trail,
                   collections>>

Next ==
    \/ Tick
    \/ SaveAllTimer
    \/ Sigint
    \/ RouterBorrow
    \/ RouterReturn
    \/ RouterList
    \/ RouterStats
    \/ ServerBorrow
    \/ ServerReturn
    \/ ServerList
    \/ ServerStats

Spec == Init /\ [][Next]_vars

\* ------------------------------------------------------- request sequences
\* Longer sequences of well-formed borrow and return requests on the seeded
\* units, each kept in trail with the unit it names before and after it.
SeqBorrowInputs ==
    {Body(Whole(k), Str("Alice"), Str("Room 101"), Undefined) : k \in 1..NumIrons}
SeqReturnInputs == {Whole(k) : k \in 1..NumIrons}

Visit(req, before, after) ==
    [op |-> req.op, kind |-> req.kind, target |-> req.target,
     before |-> IF req.target = 0 THEN Null ELSE before[req.target],
     after |-> IF req.target = 0 THEN Null ELSE after[req.target]]

SeqRouterBorrow ==
    /\ RouterBorrowOn(SeqBorrowInputs, MaxSeqRequests)
    /\ trail' = Append(trail, Visit(last', ironBorrowing, ironBorrowing'))

SeqRouterReturn ==
    /\ RouterReturnOn(SeqReturnInputs, MaxSeqRequests)
    /\ trail' = Append(trail, Visit(last', ironBorrowing, ironBorrowing'))

SeqServerBorrow ==
    /\ ServerBorrowOn(SeqBorrowInputs, MaxSeqRequests)
    /\ trail' = Append(trail, Visit(last', srvIrons, srvIrons'))

SeqServerReturn ==
    /\ ServerReturnOn(SeqReturnInputs, MaxSeqRequests)
    /\ trail' = Append(trail, Visit(last', srvIrons, srvIrons'))

NextSeq ==
    \/ SeqRouterBorrow
    \/ SeqRouterReturn
    \/ SeqServerBorrow
    \/ SeqServerReturn

SpecSeq == Init /\ [][NextSeq]_vars

\* --------------------------------------- DatabaseManager, the other methods
\* rows.find(r => r.id === id): the index of the first match, 0 for none
FindId(rows, id) ==
    IF \E i \in 1..Len(rows) : rows[i].id = id
    THEN CHOOSE i \in 1..Len(rows) :
            rows[i].id = id /\ \A j \in 1..(i - 1) : rows[j].id # id
    ELSE 0

\* new Date().toISOString().split('T')[0]
MsPerDay == 24 * MsPerHour
Today(t) == JSV("iso-day", t \div MsPerDay, "")

\* { ...a, ...b }: the fields of both, b's value where both have the field
Spread(a, b) ==
    [f \in DOMAIN a \cup DOMAIN b |-> IF f \in DOMAIN b THEN b[f] ELSE a[f]]

createDC(rows, dcData, t) ==
    Append(rows, Spread(Spread([id |-> Whole(Len(rows) + 1)], dcData),
                        [createdAt |-> Date(t), updatedAt |-> Date(t)]))

updateDC(rows, id, updateData, t) ==
    LET k == FindId(rows, id)
    IN  IF k # 0
        THEN [rows EXCEPT ![k] = [@ EXCEPT !.email = updateData.email,
                                           !.updatedAt = Date(t)]]
        ELSE rows

\* A createStudent that numbers from zero.
createStudent_FromZero(rows, studentData, t) ==
    Append(rows, Spread(Spread([id |-> Whole(Len(rows))], studentData),
                        [createdAt |-> Date(t)]))

createStudent(rows, studentData, t) ==
    Append(rows, Spread(Spread([id |-> Whole(Len(rows) + 1)], studentData),
                        [createdAt |-> Date(t)]))

updateStudentAttendance(rows, studentId, present) ==
    LET k == FindId(rows, studentId)
    IN  IF k # 0 THEN [rows EXCEPT ![k] = [@ EXCEPT !.present = present]] ELSE rows

\* (updatedAt, which the new record does not have, reads as undefined)
createComplaint(rows, complaintData, t) ==
    Append(rows, Spread(Spread([id |-> Whole(Len(rows) + 1), updatedAt |-> Undefined],
                               complaintData),
                        [timestamp |-> Date(t), status |-> Str("Open")]))

updateComplaintStatus(rows, id, status, t) ==
    LET k == FindId(rows, id)
    IN  IF k # 0
        THEN [rows EXCEPT ![k] = [@ EXCEPT !.status = status, !.updatedAt = Date(t)]]
        ELSE rows

\* a === b: NaN equals nothing
StrictEq(a, b) == a = b /\ a.t # "nan"

\* A recordAttendance that pushes a record on every call.
recordAttendance_AlwaysPush(rows, attendanceData, t) ==
    Append(rows, [id |-> Whole(Len(rows) + 1),
                  studentId |-> attendanceData.studentId,
                  present |-> attendanceData.present,
                  method |-> attendanceData.method,
                  date |-> Today(t), createdAt |-> Date(t),
                  updatedAt |-> Undefined])

recordAttendance(rows, attendanceData, t) ==
    LET same(i) == /\ StrictEq(rows[i].studentId, attendanceData.studentId)
                   /\ rows[i].date = Today(t)
    IN  IF \E i \in 1..Len(rows) : same(i)
        THEN LET k == CHOOSE i \in 1..Len(rows) :
                         same(i) /\ \A j \in 1..(i - 1) : ~same(j)
             IN  [rows EXCEPT ![k] = [@ EXCEPT !.present = attendanceData.present,
                                               !.method = attendanceData.method,
                                               !.updatedAt = Date(t)]]
        ELSE Append(rows, [id |-> Whole(Len(rows) + 1),
                           studentId |-> attendanceData.studentId,
                           present |-> attendanceData.present,
                           method |-> attendanceData.method,
                           date |-> Today(t), createdAt |-> Date(t),
                           updatedAt |-> Undefined])

\* The arguments of the calls.
RowIdInputs == {Whole(1), Whole(UnknownId)}
DcInputs == {[email |-> Str("dc@hostel.edu")]}
DcUpdates == {[email |-> Str("new@hostel.edu")]}
StudentInputs == {[name |-> Str("New Student"), present |-> Bool(FALSE)]}
PresentInputs == {Bool(TRUE), Bool(FALSE)}
ComplaintInputs == {[title |-> Str("Leaking tap")]}
StatusInputs == {Str("Resolved")}
AttendanceInputs ==
    {[studentId |-> Whole(1), present |-> Bool(b), method |-> Str("manual")] :
        b \in BOOLEAN}

\* a call of createDC
CreateDC ==
    /\ running
    /\ impl = "router"
    /\ nreq < MaxDbCalls
    /\ \E dcData \in DcInputs :
          /\ dcs' = createDC(dcs, dcData, now)
          /\ dataFiles' = IF dcs' # dcs
                          THEN [dataFiles EXCEPT !.dcs = SavedRows(@, dcs')]
                          ELSE dataFiles
          /\ last' = Respond(Request("router", "createDC", NoBody, ironBorrowing),
                             "success")
    /\ nreq' = nreq + 1
    /\ UNCHANGED <<web, impl, ironBorrowing, ironFile, srvIrons, now, ticks, running,
                   writable, trail, students, complaints, attendance>>

\* a call of updateDC
UpdateDC ==
    /\ running
    /\ impl = "router"
    /\ nreq < MaxDbCalls
    /\ \E id \in RowIdInputs : \E updateData \in DcUpdates :
          /\ dcs' = updateDC(dcs, id, updateData, now)
          /\ dataFiles' = IF dcs' # dcs
                          THEN [dataFiles EXCEPT !.dcs = SavedRows(@, dcs')]
                          ELSE dataFiles
          /\ last' = Respond(Request("router", "updateDC", NoBody, ironBorrowing),
                             IF FindId(dcs, id) # 0 THEN "success" ELSE "notfound")
    /\ nreq' = nreq + 1
    /\ UNCHANGED <<web, impl, ironBorrowing, ironFile, srvIrons, now, ticks, running,
                   writable, trail, students, complaints, attendance>>

\* a call of createStudent
CreateStudent ==
    /\ running
    /\ impl = "router"
    /\ nreq < MaxDbCalls
    /\ \E studentData \in StudentInputs :
          /\ students' = createStudent(students, studentData, now)
          /\ dataFiles' = IF students' # students
                          THEN [dataFiles EXCEPT !.students = SavedRows(@, students')]
                          ELSE dataFiles
          /\ last' = Respond(Request("router", "createStudent", NoBody, ironBorrowing),
                             "success")
    /\ nreq' = nreq + 1
    /\ UNCHANGED <<web, impl, ironBorrowing, ironFile, srvIrons, now, ticks, running,
                   writable, trail, dcs, complaints, attendance>>

\* a call of updateStudentAttendance
UpdateStudentAttendance ==
    /\ running
    /\ impl = "router"
    /\ nreq < MaxDbCalls
    /\ \E id \in RowIdInputs : \E present \in PresentInputs :
          /\ students' = updateStudentAttendance(students, id, present)
          /\ dataFiles' = IF students' # students
                          THEN [dataFiles EXCEPT !.students = SavedRows(@, students')]
                          ELSE dataFiles
          /\ last' = Respond(Request("router", "updateStudentAttendance", NoBody, ironBorrowing),
                             IF FindId(students, id) # 0 THEN "success" ELSE "notfound")
    /\ nreq' = nreq + 1
    /\ UNCHANGED <<web, impl, ironBorrowing, ironFile, srvIrons, now, ticks, running,
                   writable, trail, dcs, complaints, attendance>>

\* a call of createComplaint
CreateComplaint ==
    /\ running
    /\ impl = "router"
    /\ nreq < MaxDbCalls
    /\ \E complaintData \in ComplaintInputs :
          /\ complaints' = createComplaint(complaints, complaintData, now)
          /\ dataFiles' = IF complaints' # complaints
                          THEN [dataFiles EXCEPT !.complaints = SavedRows(@, complaints')]
                          ELSE dataFiles
          /\ last' = Respond(Request("router", "createComplaint", NoBody, ironBorrowing),
                             "success")
    /\ nreq' = nreq + 1
    /\ UNCHANGED <<web, impl, ironBorrowing, ironFile, srvIrons, now, ticks, running,
                   writable, trail, dcs, students, attendance>>

\* a call of updateComplaintStatus
UpdateComplaintStatus ==
    /\ running
    /\ impl = "router"
    /\ nreq < MaxDbCalls
    /\ \E id \in RowIdInputs : \E status \in StatusInputs :
          /\ complaints' = updateComplaintStatus(complaints, id, status, now)
          /\ dataFiles' = IF complaints' # complaints
                          THEN [dataFiles EXCEPT !.complaints = SavedRows(@, complaints')]
                          ELSE dataFiles
          /\ last' = Respond(Request("router", "updateComplaintStatus", NoBody, ironBorrowing),
                             IF FindId(complaints, id) # 0 THEN "success" ELSE "notfound")
    /\ nreq' = nreq + 1
    /\ UNCHANGED <<web, impl, ironBorrowing, ironFile, srvIrons, now, ticks, running,
                   writable, trail, dcs, students, attendance>>

\* A recordAttendance that also takes every iron back.
RecordAttendance_FreesIrons ==
    /\ running
    /\ impl = "router"
    /\ nreq < MaxDbCalls
    /\ \E attendanceData \in AttendanceInputs :
          /\ attendance' = recordAttendance(attendance, attendanceData, now)
          /\ dataFiles' = IF attendance' # attendance
                          THEN [dataFiles EXCEPT !.attendance = SavedRows(@, attendance')]
                          ELSE dataFiles
          /\ ironBorrowing' =
                [i \in 1..Len(ironBorrowing) |->
                    Iron(ironBorrowing[i].ironId, TRUE, Null, Null, Null, Null)]
          /\ last' = Respond(Request("router", "recordAttendance", NoBody, ironBorrowing),
                             "success")
    /\ nreq' = nreq + 1
    /\ UNCHANGED <<web, impl, ironFile, srvIrons, now, ticks, running,
                   writable, trail, dcs, students, complaints>>

\* a call of recordAttendance
RecordAttendance ==
    /\ running
    /\ impl = "router"
    /\ nreq < MaxDbCalls
    /\ \E attendanceData \in AttendanceInputs :
          /\ attendance' = recordAttendance(attendance, attendanceData, now)
          /\ dataFiles' = IF attendance' # attendance
                          THEN [dataFiles EXCEPT !.attendance = SavedRows(@, attendance')]
                          ELSE dataFiles
          /\ last' = Respond(Request("router", "recordAttendance", NoBody, ironBorrowing),
                             "success")
    /\ nreq' = nreq + 1
    /\ UNCHANGED <<web, impl, ironBorrowing, ironFile, srvIrons, now, ticks, running,
                   writable, trail, dcs, students, complaints>>

\* borrowIron and returnIron, called by their routes
DbBorrow == RouterBorrowOn(SeqBorrowInputs, MaxDbCalls) /\ UNCHANGED trail
DbReturn == RouterReturnOn(SeqReturnInputs, MaxDbCalls) /\ UNCHANGED trail

NextDb ==
    \/ CreateDC
    \/ UpdateDC
    \/ CreateStudent
    \/ UpdateStudentAttendance
    \/ CreateComplaint
    \/ UpdateComplaintStatus
    \/ RecordAttendance
    \/ RouterStats
    \/ SaveAllTimer
    \/ DbBorrow
    \/ DbReturn

InitDb == Init /\ impl = "router"

SpecDb == InitDb /\ [][NextDb]_vars

\* ------------------------------------------------ router: /attendance/*
MaxAttendance == 3
MaxDays == 1
FiveMinutes == 5 * 60 * 1000

\* req.body.studentId: absent, a student, a student as a string, no number,
\* an unknown student; req.body.present: absent, true, false
StudentIdInputs == {Undefined, Whole(1), Str("2"), Str("abc"), Whole(UnknownId)}
PresentBodyInputs == {Undefined, Bool(TRUE), Bool(FALSE)}
\* the age of the timestamp in qrData
QrAgeInputs == {0, FiveMinutes + 1}

InitAtt == InitDb /\ ironBorrowing = getDefaultIrons({}, now)

\* What the three routes do once they have a studentId, a present value and a
\* method: look the student up, recordAttendance, updateStudentAttendance.
Attend(route, invalid, studentId, present, method) ==
    LET id == parseInt(studentId)
        kind == CASE invalid -> "invalid"
                  [] FindId(students, id) = 0 -> "notfound"
                  [] OTHER -> "success"
    IN  /\ attendance' = IF kind = "success"
                         THEN recordAttendance(attendance,
                                  [studentId |-> id, present |-> present,
                                   method |-> method], now)
                         ELSE attendance
        /\ students' = IF kind = "success"
                       THEN updateStudentAttendance(students, id, present)
                       ELSE students
        /\ dataFiles' = IF kind = "success"
                        THEN [dataFiles EXCEPT
                                 !.attendance = SavedRows(@, attendance'),
                                 !.students = SavedRows(@, students')]
                        ELSE dataFiles
        /\ last' = [impl |-> "router", op |-> route, kind |-> kind, studentId |-> id,
                    present |-> present, method |-> method]

\* router.post('/attendance/manual')
AttendanceManual ==
    /\ running
    /\ nreq < MaxAttendance
    /\ \E studentId \in StudentIdInputs : \E present \in PresentBodyInputs :
          Attend("attendance/manual", ~Truthy(studentId) \/ present = Undefined,
                 studentId, present, Str("manual"))
    /\ nreq' = nreq + 1
    /\ UNCHANGED <<web, impl, ironBorrowing, ironFile, srvIrons, now, ticks, running,
                   writable, trail, dcs, complaints>>

\* router.post('/attendance/face-recognition')
AttendanceFace ==
    /\ running
    /\ nreq < MaxAttendance
    /\ \E studentId \in StudentIdInputs :
          Attend("attendance/face-recognition", ~Truthy(studentId),
                 studentId, Bool(TRUE), Str("face_recognition"))
    /\ nreq' = nreq + 1
    /\ UNCHANGED <<web, impl, ironBorrowing, ironFile, srvIrons, now, ticks, running,
                   writable, trail, dcs, complaints>>

\* router.post('/attendance/qr-code'), qrData = "STUDENT_ID:TIMESTAMP" with
\* both parts there: the student is looked up before the age of the code is
\* tested.
AttendanceQr ==
    /\ running
    /\ nreq < MaxAttendance
    /\ \E studentId \in {Str("2"), Str("abc")} : \E age \in QrAgeInputs :
          Attend("attendance/qr-code",
                 FindId(students, parseInt(studentId)) # 0 /\ age > FiveMinutes,
                 studentId, Bool(TRUE), Str("qr_code"))
    /\ nreq' = nreq + 1
    /\ UNCHANGED <<web, impl, ironBorrowing, ironFile, srvIrons, now, ticks, running,
                   writable, trail, dcs, complaints>>

\* The next day.
DayTick ==
    /\ ticks < MaxDays
    /\ now' = now + MsPerDay
    /\ ticks' = ticks + 1
    /\ UNCHANGED <<web, impl, ironBorrowing, ironFile, srvIrons, nreq, last, running,
                   writable, trail, collections, dataFiles>>

NextAtt == AttendanceManual \/ AttendanceFace \/ AttendanceQr \/ DayTick

SpecAtt == InitAtt /\ [][NextAtt]_vars

\* ------------------------------------------------------------- rateLimit
\* requests.get(clientId) || []
ClientRequests(map, clientId) == IF clientId \in DOMAIN map THEN map[clientId] ELSE << >>

\* clientRequests.filter(time => time > windowStart), windowStart = t - windowMs
ValidRequests(map, clientId, t, windowMs) ==
    SelectSeq(ClientRequests(map, clientId), LAMBDA time : time > t - windowMs)

\* The middleware calls next(): the client has fewer than maxRequests valid
\* requests.
Admitted(map, clientId, t, windowMs, maxRequests) ==
    Len(ValidRequests(map, clientId, t, windowMs)) < maxRequests

\* A limiter that records the request it turns away as well.
rateLimit_RecordsAll(map, clientId, t, windowMs, maxRequests) ==
    [c \in DOMAIN map \cup {clientId} |->
        IF c = clientId
        THEN Append(ValidRequests(map, clientId, t, windowMs), t)
        ELSE map[c]]

\* The Map after the middleware ran for a request of clientId at t: the valid
\* requests with t pushed, or the Map as it was after a 429.
rateLimit(map, clientId, t, windowMs, maxRequests) ==
    IF Admitted(map, clientId, t, windowMs, maxRequests)
    THEN [c \in DOMAIN map \cup {clientId} |->
             IF c = clientId
             THEN Append(ValidRequests(map, clientId, t, windowMs), t)
             ELSE map[c]]
    ELSE map

\* One rateLimit(LimitWindowMs, LimitMaxRequests) instance in front of a
\* handler, requests of two clients, and a clock that moves a millisecond at a
\* time.  trail keeps every arrival with what the middleware did with it.
LimitWindowMs == 2
LimitMaxRequests == 2
MaxArrivals == 5
MaxLimitTicks == 3
Clients == {"10.0.0.1", "10.0.0.2"}

InitLimit == InitAtt /\ writable

LimitedRequest ==
    /\ running
    /\ nreq < MaxArrivals
    /\ \E clientId \in Clients :
          /\ requests' = rateLimit(requests, clientId, now, LimitWindowMs, LimitMaxRequests)
          /\ trail' = Append(trail,
                 [client |-> clientId, time |-> now,
                  passed |-> Admitted(requests, clientId, now, LimitWindowMs,
                                      LimitMaxRequests)])
    /\ nreq' = nreq + 1
    /\ UNCHANGED <<pending, impl, ironBorrowing, ironFile, srvIrons, now, ticks, last,
                   running, writable, collections, dataFiles>>

\* Date.now() moves on.
LimitTick ==
    /\ ticks < MaxLimitTicks
    /\ now' = now + 1
    /\ ticks' = ticks + 1
    /\ UNCHANGED <<web, impl, ironBorrowing, ironFile, srvIrons, nreq, last, running,
                   writable, trail, collections, dataFiles>>

NextLimit == LimitedRequest \/ LimitTick

SpecLimit == InitLimit /\ [][NextLimit]_vars

\* ------------------------------------------------- router: /auth/register
\* rateLimit(15 * 60 * 1000, 10)
RegisterWindowMs == 15 * 60 * 1000
RegisterMaxRequests == 10
MaxRegistrations == 2
RegisterClient == "10.0.0.1"

\* The request bodies: two emails, two employee ids, a password bcrypt accepts
\* and one it rejects (a number), and a body without a name.
RegisterBody(name, email, password, employeeId) ==
    [name |-> name, email |-> email, password |-> password, employeeId |-> employeeId]
RegisterInputs ==
    {RegisterBody(Str("Ann"), Str(e), p, Str(i)) :
        e \in {"a@hostel.edu", "b@hostel.edu"}, p \in {Str("secret"), Whole(1)},
        i \in {"E1", "E2"}}
    \cup {RegisterBody(Undefined, Str("a@hostel.edu"), Str("secret"), Str("E1"))}

\* dcs.find(dc => dc.email === email || dc.employeeId === employeeId)
ExistingDC(rows, body) ==
    \E i \in 1..Len(rows) :
        rows[i].email = body.email \/ rows[i].employeeId = body.employeeId

\* The response of the part of the handler that runs before the await;
\* "await" when it reaches bcrypt.hash.
RegisterKind(rows, body) ==
    CASE ~(Truthy(body.name) /\ Truthy(body.email) /\ Truthy(body.password)
           /\ Truthy(body.employeeId)) -> "invalid"
      [] ExistingDC(rows, body) -> "conflict"
      [] OTHER -> "await"

\* A request arrives: the middleware, then the handler up to `await
\* bcrypt.hash(password, 10)`, where it leaves the event loop to others.
RegisterArrive ==
    /\ running
    /\ nreq < MaxRegistrations
    /\ \E body \in RegisterInputs :
          LET ok == Admitted(requests, RegisterClient, now, RegisterWindowMs,
                             RegisterMaxRequests)
              kind == IF ok THEN RegisterKind(dcs, body) ELSE "limited"
          IN  /\ requests' = rateLimit(requests, RegisterClient, now, RegisterWindowMs,
                                       RegisterMaxRequests)
              /\ pending' = IF kind = "await"
                            THEN pending \cup {[n |-> nreq + 1, body |-> body]}
                            ELSE pending
              /\ last' = Respond(Request("router", "register", NoBody, ironBorrowing), kind)
    /\ nreq' = nreq + 1
    /\ UNCHANGED <<impl, ironBorrowing, ironFile, srvIrons, now, ticks, running,
                   writable, trail, collections, dataFiles>>

\* bcrypt.hash settles and the handler goes on: createDC with the hash, or
\* the catch block when bcrypt rejected the password.
RegisterResume ==
    /\ running
    /\ \E p \in pending :
          LET ok == p.body.password.t = "string"
          IN  /\ dcs' = IF ok
                        THEN createDC(dcs, [name |-> p.body.name, email |-> p.body.email,
                                            employeeId |-> p.body.employeeId,
                                            password |-> Str("$2b$10$hash"),
                                            role |-> Str("dc")], now)
                        ELSE dcs
              /\ dataFiles' = IF ok
                              THEN [dataFiles EXCEPT !.dcs = SavedRows(@, dcs')]
                              ELSE dataFiles
              /\ pending' = pending \ {p}
              /\ last' = Respond(Request("router", "register", NoBody, ironBorrowing),
                                 IF ok THEN "success" ELSE "error")
    /\ UNCHANGED <<requests, impl, ironBorrowing, ironFile, srvIrons, now, ticks, nreq,
                   running, writable, trail, students, complaints, attendance>>

NextReg == RegisterArrive \/ RegisterResume

SpecReg == InitDb /\ [][NextReg]_vars

\* -------------------------------------------------- the two programs side by side
\* loadData(filename, defaultData): JSON.parse of the file when it exists
loadData(file, defaultData) == IF file = NoFile THEN defaultData ELSE file

\* Both programs run on the same unit set and get the same requests at the same
\* clock.  The unit set is the standalone server's literal; the router finds
\* it in data/ironBorrowing.json.  last is the router's response, trail the
\* server's.
InitPair ==
    /\ impl = "pair"
    /\ now = 0
    /\ ticks = 0
    /\ nreq = 0
    /\ writable = TRUE
    /\ srvIrons = ServerSeed(now)
    /\ ironFile = saveData(ServerSeed(now))
    /\ ironBorrowing = loadData(ironFile, getDefaultIrons({}, now))
    /\ last = NoRequest
    /\ running = TRUE
    /\ pending = {}
    /\ requests = NoRequests
    /\ trail = << >>
    /\ dcs = << >>
    /\ students = getDefaultStudents
    /\ complaints = getDefaultComplaints(now)
    /\ attendance = << >>
    /\ dataFiles = [dcs |-> SavedRows(NoFile, dcs), students |-> SavedRows(NoFile, students),
                    complaints |-> SavedRows(NoFile, complaints),
                    attendance |-> SavedRows(NoFile, attendance)]

PairBorrow ==
    /\ nreq < MaxRequests
    /\ \E body \in BorrowInputs :
          LET after == RouterBorrowEffect(body, ironBorrowing, now, now)
          IN  /\ ironBorrowing' = after
              /\ ironFile' = IF after # ironBorrowing THEN Saved(ironFile, after) ELSE ironFile
              /\ last' = Respond(Request("router", "borrow", body, ironBorrowing),
                                 RouterBorrowKind(body, after))
              /\ srvIrons' = ServerBorrowEffect(body, srvIrons, now, now)
              /\ trail' = << Respond(Request("server", "borrow", body, srvIrons),
                                     ServerBorrowKind(body, srvIrons)) >>
    /\ nreq' = nreq + 1
    /\ UNCHANGED <<web, impl, now, ticks, running, writable, collections, dataFiles>>

PairReturn ==
    /\ nreq < MaxRequests
    /\ \E ironId \in IronIdInputs :
          LET body == Body(ironId, Undefined, Undefined, Undefined)
              after == RouterReturnEffect(body, ironBorrowing)
          IN  /\ ironBorrowing' = after
              /\ ironFile' = IF after # ironBorrowing THEN Saved(ironFile, after) ELSE ironFile
              /\ last' = Respond(Request("router", "return", body, ironBorrowing),
                                 RouterReturnKind(body, after))
              /\ srvIrons' = ServerReturnEffect(body, srvIrons)
              /\ trail' = << Respond(Request("server", "return", body, srvIrons),
                                     ServerReturnKind(body, srvIrons)) >>
    /\ nreq' = nreq + 1
    /\ UNCHANGED <<web, impl, now, ticks, running, writable, collections, dataFiles>>

NextPair == PairBorrow \/ PairReturn

SpecPair == InitPair /\ [][NextPair]_vars

\* ================================================================== claims
\* The unit array of the program this behaviour runs.
Ledger == IF impl = "router" THEN ironBorrowing ELSE srvIrons

Present(v) == v.t \notin {"null", "undefined"}

\* The last request was a borrow, with both required fields, of a unit that
\* was available: the handler checked the unit out.
CheckedOutByLast ==
    /\ last.op = "borrow"
    /\ last.target # 0
    /\ last.wasAvail
    /\ Truthy(last.body.borrowerName)

\* dueAt - checkedOutAt of the unit the last request names is h / Denom hours,
\* to the millisecond by which the handler's two clock reads may differ.
HoldIs(h) ==
    LET u == Ledger[last.target]
    IN  /\ u.borrowedAt.t = "date"
        /\ u.returnBy.t = "date"
        /\ \E skew \in ClockSkews :
              Denom * (u.returnBy.n - u.borrowedAt.n - skew) = h * MsPerHour

\* C1: two borrow requests on the same unit with different holders, the unit
\* available before the first and no return in between: exactly one is answered
\* with success and the other with 'Iron is already borrowed', and the unit is
\* then held by the holder of the successful one.
C1_OneWinner ==
    [][(/\ nreq' = nreq + 1
        /\ last.op = "borrow" /\ last'.op = "borrow"
        /\ last.target # 0 /\ last'.target = last.target
        /\ last.wasAvail
        /\ Truthy(last.body.borrowerName) /\ Truthy(last'.body.borrowerName)
        /\ last.body.borrowerName # last'.body.borrowerName)
       => (\/ /\ last.kind = "success" /\ last'.kind = "already"
              /\ Ledger'[last.target].borrowedBy = last.body.borrowerName
           \/ /\ last.kind = "already" /\ last'.kind = "success"
              /\ Ledger'[last.target].borrowedBy = last'.body.borrowerName)]_vars

\* C2: a borrow request with an existing ironId and a non-empty borrowerName on
\* an available unit is answered with success, and the unit is then borrowed by
\* the requested holder at the requested room.
C2_BorrowAvailableSucceeds ==
    CheckedOutByLast =>
        /\ last.kind = "success"
        /\ ~Ledger[last.target].available
        /\ Ledger[last.target].borrowedBy = last.body.borrowerName
        /\ Present(last.body.room) => Ledger[last.target].room = last.body.room

\* C3, as stated: every borrow request on a borrowed unit is answered with
\* 'Iron is already borrowed' and leaves the unit as it was.
C3_BorrowCheckedOutAlways ==
    [][(/\ nreq' = nreq + 1
        /\ last'.op = "borrow" /\ last'.target # 0 /\ ~last'.wasAvail)
       => (/\ last'.kind = "already"
           /\ Ledger'[last'.target] = Ledger[last'.target])]_vars

\* C3, amended: a borrow request with a non-empty borrowerName on a borrowed
\* unit is answered with 'Iron is already borrowed' and leaves the unit's
\* holder, borrowedAt, returnBy, room and available flag as they were.
C3_BorrowCheckedOutFails ==
    [][(/\ nreq' = nreq + 1
        /\ last'.op = "borrow" /\ last'.target # 0 /\ ~last'.wasAvail
        /\ Truthy(last'.body.borrowerName))
       => (/\ last'.kind = "already"
           /\ Ledger'[last'.target] = Ledger[last'.target])]_vars

C3_Witness ==
    /\ last.op = "borrow" /\ last.target # 0 /\ ~last.wasAvail
    /\ Truthy(last.body.borrowerName)
    /\ last.kind = "already"
    /\ ~Ledger[last.target].available
    /\ Ledger[last.target].borrowedBy # last.body.borrowerName

\* C4: a return request on an existing borrowed unit is answered with success,
\* and the unit is then available with borrowedBy, borrowedAt, returnBy and
\* room all null.
C4_ReturnCheckedOutSucceeds ==
    (last.op = "return" /\ last.target # 0 /\ ~last.wasAvail) =>
        /\ last.kind = "success"
        /\ Ledger[last.target].available
        /\ Ledger[last.target].borrowedBy = Null
        /\ Ledger[last.target].borrowedAt = Null
        /\ Ledger[last.target].returnBy = Null
        /\ Ledger[last.target].room = Null

C4_Witness ==
    /\ last.op = "return" /\ last.target # 0 /\ ~last.wasAvail
    /\ last.kind = "success"
    /\ Ledger[last.target].available

\* C5: a return request on an existing available unit is answered with 'Iron
\* is not currently borrowed', never with success, and changes no unit.
C5_ReturnAvailableFails ==
    [][(/\ nreq' = nreq + 1
        /\ last'.op = "return" /\ last'.target # 0 /\ last'.wasAvail)
       => (/\ last'.kind = "notborrowed"
           /\ Ledger' = Ledger)]_vars

\* C6: invariant I1 in every reachable state, the seed included: a unit is
\* borrowed exactly when borrowedBy, borrowedAt, returnBy and room are all
\* present, and available exactly when all four are absent.
AllPresent(u) ==
    Present(u.borrowedBy) /\ Present(u.borrowedAt) /\ Present(u.returnBy) /\ Present(u.room)
AllAbsent(u) ==
    ~Present(u.borrowedBy) /\ ~Present(u.borrowedAt) /\ ~Present(u.returnBy)
    /\ ~Present(u.room)

C6_I1 ==
    \A i \in 1..Len(Ledger) :
        /\ ~Ledger[i].available <=> AllPresent(Ledger[i])
        /\ Ledger[i].available <=> AllAbsent(Ledger[i])

\* C7: invariant I2 in every reachable state: a borrowed unit that carries its
\* two dates has returnBy strictly after borrowedAt, whatever duration the
\* borrow request carried.
C7_I2 ==
    \A i \in 1..Len(Ledger) :
        (/\ ~Ledger[i].available
         /\ Ledger[i].borrowedAt.t = "date"
         /\ Present(Ledger[i].returnBy))
        => (/\ Ledger[i].returnBy.t = "date"
            /\ Ledger[i].returnBy.n > Ledger[i].borrowedAt.n)

\* C8: after a borrow that checked a unit out with a positive duration d,
\* returnBy - borrowedAt is exactly d hours, for whole and fractional d.
C8_ExactDuration ==
    (CheckedOutByLast /\ last.body.duration.t = "number" /\ last.body.duration.n > 0)
    => HoldIs(last.body.duration.n)

\* C9: after a borrow that checked a unit out with no duration or with a zero
\* or negative one, returnBy - borrowedAt is the default of 4 hours.
C9_DefaultDuration ==
    (/\ CheckedOutByLast
     /\ \/ last.body.duration.t = "undefined"
        \/ last.body.duration.t = "number" /\ last.body.duration.n <= 0)
    => HoldIs(DefaultHours * Denom)

\* C10: in every reachable state the summary of the list read has
\* available + borrowed = total, and the statistics have
\* ironsBorrowed + availableIrons equal to the number of units; so has every
\* response of the two reads that carries the counts (the list read of the
\* standalone server returns the units without a summary).
C10_CountsAddUp ==
    /\ Summary(Ledger).available + Summary(Ledger).borrowed = Summary(Ledger).total
    /\ getStatistics(Ledger).ironsBorrowed + getStatistics(Ledger).availableIrons
         = Len(Ledger)
    /\ (last.op = "list" /\ last.impl = "router") =>
          last.available + last.borrowed = last.total /\ last.total = Len(Ledger)
    /\ last.op = "stats" => last.available + last.borrowed = Len(Ledger)

C10_Witness ==
    /\ last.op = "list"
    /\ last.borrowed > 0
    /\ last.available > 0
    /\ nreq > 1

\* The ironIds of an array, in array order.
UnitIds(irons) == [i \in 1..Len(irons) |-> irons[i].ironId]

\* The array the program of this behaviour starts from when nothing is stored.
Provisioned ==
    IF impl = "router" THEN getDefaultIrons({}, 0) ELSE ServerSeed(0)

\* C11: after any sequence of borrow and return requests, answered with
\* success or not, the ironIds are those of the seed, in the seed's order:
\* no unit is added, removed or renumbered, the ids are pairwise distinct and
\* the number of units is the seed's.
C11_IdsFixed ==
    /\ UnitIds(Ledger) = UnitIds(Provisioned)
    /\ \A i, j \in 1..Len(Ledger) : i # j => Ledger[i].ironId # Ledger[j].ironId
    /\ Len(Ledger) = Len(Provisioned)

\* A unit was checked out by one request and returned by the next.
C11_Witness ==
    /\ nreq = 2
    /\ last.op = "return" /\ last.target # 0 /\ ~last.wasAvail
    /\ Ledger[last.target].available
    /\ Len(Ledger) = Len(Provisioned)

\* C12, as stated: every borrow or return request that carries a number as
\* ironId which is the id of no unit is answered with 'Iron not found' and
\* changes no unit.
C12_UnknownAlwaysNotFound ==
    [][(/\ nreq' = nreq + 1
        /\ last'.op \in {"borrow", "return"}
        /\ last'.body.ironId.t = "number" /\ last'.target = 0)
       => (/\ last'.kind = "notfound"
           /\ Ledger' = Ledger)]_vars

\* C12, amended: a borrow request with a non-empty borrowerName, or a return
\* request, whose ironId is a number other than 0 and the id of no unit is
\* answered with 'Iron not found' and changes no unit.
C12_UnknownNotFound ==
    [][(/\ nreq' = nreq + 1
        /\ last'.op \in {"borrow", "return"}
        /\ last'.body.ironId.t = "number" /\ last'.body.ironId.n # 0
        /\ last'.target = 0
        /\ last'.op = "borrow" => Truthy(last'.body.borrowerName))
       => (/\ last'.kind = "notfound"
           /\ Ledger' = Ledger)]_vars

\* A return of the unknown id was answered 'Iron not found' while a unit is
\* borrowed.
C12_Witness ==
    /\ last.op = "return"
    /\ last.body.ironId = Whole(UnknownId) /\ last.target = 0
    /\ last.kind = "notfound"
    /\ CountBorrowed(Ledger) > 0

\* C13: a borrow request with a missing or empty borrowerName, with an ironId
\* that is zero or negative, or with a duration that is a string no number can
\* be read from, is answered with the 400 of a bad request (never with 'Iron
\* not found', never with success) and changes no unit.
C13_InvalidInput ==
    [][(/\ nreq' = nreq + 1
        /\ last'.op = "borrow"
        /\ \/ ~Truthy(last'.body.borrowerName)
           \/ last'.body.ironId.t = "number" /\ last'.body.ironId.n <= 0
           \/ /\ last'.body.duration.t = "string"
              /\ last'.body.duration.s \notin NumericStrings)
       => (/\ last'.kind = "invalid"
           /\ Ledger' = Ledger)]_vars

\* C14: a borrowed unit stays borrowed with the same borrowedBy, borrowedAt,
\* returnBy and room in every step but a return request on that unit answered
\* with success: no clock advance past returnBy, no run of the auto-save
\* timer and no SIGINT handler changes it.
C14_HoldPersists ==
    [][\A i \in 1..Len(Ledger) :
          ~Ledger[i].available =>
              \/ Ledger'[i] = Ledger[i]
              \/ /\ nreq' = nreq + 1
                 /\ last'.op = "return" /\ last'.kind = "success"
                 /\ last'.target = i]_vars

\* The unit the last request checked out is overdue and still held after the
\* process has run its exit handler.
C14_Witness ==
    /\ CheckedOutByLast
    /\ ticks > 0
    /\ ~running
    /\ ~Ledger[last.target].available
    /\ Ledger[last.target].returnBy.t = "date"
    /\ Ledger[last.target].returnBy.n < now

\* C15: whenever a borrow or a return request has been answered with success,
\* the unit file holds the units as they are in memory (as JSON.stringify
\* writes them), so that a start from that file reloads the hold or the return.
C15_PersistedAtSuccess ==
    (last.op \in {"borrow", "return"} /\ last.kind = "success")
    => ironFile = saveData(Ledger)

\* C16: before the first request, with the units as the first start (no unit
\* file) or the server's literal seed made them, every unit is available and
\* has no borrowedBy, borrowedAt, returnBy or room.
C16_ProvisionedAvailable ==
    last = NoRequest =>
        \A i \in 1..Len(Ledger) : Ledger[i].available /\ AllAbsent(Ledger[i])

\* C17: a borrow or a return request answered with success changes only the
\* unit it names: every other unit is as it was, and the number of borrowed
\* units is one more after the borrow and one less after the return.
C17_OnlyTheUnit ==
    [][(/\ nreq' = nreq + 1
        /\ last'.op \in {"borrow", "return"}
        /\ last'.kind = "success")
       => (/\ \A i \in 1..Len(Ledger) : i # last'.target => Ledger'[i] = Ledger[i]
           /\ last'.op = "borrow" => CountBorrowed(Ledger') = CountBorrowed(Ledger) + 1
           /\ last'.op = "return" => CountBorrowed(Ledger') = CountBorrowed(Ledger) - 1)]_vars

\* C18: the list read and the statistics read change no unit and write no
\* file, and the list read returns all the units in ascending order of ironId,
\* from every reachable state.
C18_ReadsArePure ==
    [][(/\ nreq' = nreq + 1
        /\ last'.op \in {"list", "stats"})
       => (/\ Ledger' = Ledger
           /\ ironFile' = ironFile
           /\ last'.op = "list" =>
                 /\ Len(last'.irons) = Len(Ledger)
                 /\ \A i \in 1..Len(Ledger) : \E j \in 1..Len(Ledger) :
                        last'.irons[j] = Ledger[i]
                 /\ \A i, j \in 1..Len(last'.irons) :
                        i < j => last'.irons[i].ironId < last'.irons[j].ironId)]_vars

\* A list read after a request that checked a unit out.
C18_Witness ==
    /\ last.op = "list"
    /\ nreq = 2
    /\ Len(last.irons) = Len(Ledger)
    /\ \E i \in 1..Len(Ledger) :
          ~last.irons[i].available /\ last.irons[i].borrowedBy = Str("Alice")

\* What a unit record says: its status and its four borrow fields, each
\* absent (null, or not there at all) or a value.
Field(v) == IF Present(v) THEN v ELSE Null
Snapshot(u) ==
    [available |-> u.available, borrowedBy |-> Field(u.borrowedBy),
     borrowedAt |-> Field(u.borrowedAt), returnBy |-> Field(u.returnBy),
     room |-> Field(u.room)]

\* C19: for a unit that is available with its four borrow fields absent, a
\* borrow request that checks it out followed by a return request on it: the
\* return is answered with success and leaves the unit as it was before the
\* borrow, and a further return right after it is answered with 'Iron is not
\* currently borrowed'.
C19_RoundTrip ==
    \A n \in 1..(Len(trail) - 1) :
        (/\ trail[n].op = "borrow" /\ trail[n].target # 0
         /\ trail[n].before.available /\ AllAbsent(trail[n].before)
         /\ ~trail[n].after.available
         /\ trail[n + 1].op = "return" /\ trail[n + 1].target = trail[n].target)
        => (/\ trail[n + 1].kind = "success"
            /\ Snapshot(trail[n + 1].after) = Snapshot(trail[n].before)
            /\ (/\ n + 2 <= Len(trail)
                /\ trail[n + 2].op = "return"
                /\ trail[n + 2].target = trail[n].target)
               => trail[n + 2].kind = "notborrowed")

\* C20: no step but a borrow or a return request changes a unit record: not a
\* call of createDC, updateDC, createStudent, updateStudentAttendance,
\* createComplaint, updateComplaintStatus, recordAttendance or getStatistics,
\* and not saveAll.
C20_OnlyTheLedgerWrites ==
    [][~(nreq' = nreq + 1 /\ last'.op \in {"borrow", "return"})
       => ironBorrowing' = ironBorrowing]_vars

\* Attendance was recorded while a unit is borrowed.
C20_Witness ==
    /\ last.op = "recordAttendance"
    /\ Len(attendance) > 0
    /\ nreq = 2
    /\ CountBorrowed(ironBorrowing) > 0

\* The response and the array after a borrow or a return request, for the
\* program of this behaviour.
BorrowOutcome(body, irons, t1, t2) ==
    IF impl = "router"
    THEN [kind |-> RouterBorrowKind(body, RouterBorrowEffect(body, irons, t1, t2)),
          after |-> RouterBorrowEffect(body, irons, t1, t2)]
    ELSE [kind |-> ServerBorrowKind(body, irons),
          after |-> ServerBorrowEffect(body, irons, t1, t2)]

ReturnOutcome(body, irons) ==
    IF impl = "router"
    THEN [kind |-> RouterReturnKind(body, RouterReturnEffect(body, irons)),
          after |-> RouterReturnEffect(body, irons)]
    ELSE [kind |-> ServerReturnKind(body, irons),
          after |-> ServerReturnEffect(body, irons)]

\* The holders a request or a unit can name, and an array with every holder
\* replaced by h.
Holders == {n \in NameInputs : Truthy(n)} \cup {Str("John Doe")}
HeldBy(irons, h) ==
    [i \in 1..Len(irons) |->
        IF Present(irons[i].borrowedBy) THEN [irons[i] EXCEPT !.borrowedBy = h]
        ELSE irons[i]]

\* C21: in every reachable state the response to a borrow request is the same
\* for any two non-empty borrowerNames, and the units after it differ in
\* nothing but the borrowedBy written; the response to a return request and
\* the units after it are the same, the holder's name apart, whoever holds the
\* units: no handler compares the holder with anything.  A free unit goes to
\* any non-empty holder and a held unit is given back whoever holds it.
C21_HolderBlind ==
    /\ \A body \in BorrowInputs : \A h \in Holders :
          Truthy(body.borrowerName) =>
             LET one == BorrowOutcome(body, Ledger, now, now)
                 other == BorrowOutcome([body EXCEPT !.borrowerName = h], Ledger, now, now)
             IN  /\ one.kind = other.kind
                 /\ \A i \in 1..Len(Ledger) :
                       [one.after[i] EXCEPT !.borrowedBy = Null]
                          = [other.after[i] EXCEPT !.borrowedBy = Null]
    /\ \A id \in IronIdInputs : \A h \in Holders :
          LET body == Body(id, Undefined, Undefined, Undefined)
              one == ReturnOutcome(body, Ledger)
              other == ReturnOutcome(body, HeldBy(Ledger, h))
          IN  /\ one.kind = other.kind
              /\ Len(one.after) = Len(other.after)
              /\ \A i \in 1..Len(one.after) :
                    [one.after[i] EXCEPT !.borrowedBy = Null]
                       = [other.after[i] EXCEPT !.borrowedBy = Null]
    /\ \A i \in 1..Len(Ledger) : \A h \in Holders :
          LET id == Whole(Ledger[i].ironId)
          IN  IF Ledger[i].available
              THEN BorrowOutcome(Body(id, h, Undefined, Undefined), Ledger, now, now)
                      .after[i].borrowedBy = h
              ELSE ReturnOutcome(Body(id, Undefined, Undefined, Undefined),
                                 HeldBy(Ledger, h)).after[i].available

\* The server gave back the unit its seed has 'John Doe' hold, on a request
\* that names no holder.
C21_Witness ==
    /\ impl = "server"
    /\ last.op = "return" /\ last.kind = "success" /\ ~last.wasAvail
    /\ last.body.ironId = Whole(SeedBorrowedId)
    /\ srvIrons[SeedBorrowedId].available

\* C22: run side by side from the same unit set on the same requests, the
\* router and the standalone server answer every request with the same kind of
\* outcome and hold the same units (as their JSON shows them) after it.
C22_SameOutcome ==
    /\ nreq > 0 => last.kind = trail[1].kind
    /\ saveData(ironBorrowing) = saveData(srvIrons)

\* C23: whatever the order in which registrations arrive and their password
\* hashes settle, no two DC records have the same email or the same
\* employeeId.
C23_UniqueDCs ==
    \A i, j \in 1..Len(dcs) :
        i # j => dcs[i].email # dcs[j].email /\ dcs[i].employeeId # dcs[j].employeeId

\* The arrivals of a client that the middleware passed on to the handler, with
\* arrival time later than t - LimitWindowMs.
PassedSince(clientId, t) ==
    {k \in 1..Len(trail) :
        /\ trail[k].client = clientId
        /\ trail[k].passed
        /\ trail[k].time > t - LimitWindowMs}

\* C24: for each client, at every moment at most LimitMaxRequests of its
\* requests with arrival time within the last LimitWindowMs were passed on to
\* the handler; the Map holds arrival times of passed requests only; and
\* whether the client is admitted now or at any later time is decided by its
\* passed requests alone, so that a request answered 429 does not delay the
\* next admission.
C24_WindowBound ==
    \A clientId \in Clients :
        /\ Cardinality(PassedSince(clientId, now)) <= LimitMaxRequests
        /\ \A i \in 1..Len(ClientRequests(requests, clientId)) :
              \E k \in 1..Len(trail) :
                 /\ trail[k].client = clientId /\ trail[k].passed
                 /\ trail[k].time = requests[clientId][i]
        /\ Len(ClientRequests(requests, clientId))
              <= Cardinality({k \in 1..Len(trail) :
                                 trail[k].client = clientId /\ trail[k].passed})
        /\ \A t \in now..(now + LimitWindowMs) :
              Admitted(requests, clientId, t, LimitWindowMs, LimitMaxRequests)
                 <=> Cardinality(PassedSince(clientId, t)) < LimitMaxRequests

\* A client was turned away and, the window of its passed requests over, was
\* admitted again.
C24_Witness ==
    \E j, k \in 1..Len(trail) :
        /\ j < k
        /\ trail[j].client = trail[k].client
        /\ ~trail[j].passed
        /\ trail[k].passed
        /\ trail[k].time = trail[j].time + 1

\* The attendance record of a student on the day of t, 0 for none.
RecordOf(rows, studentId, t) ==
    IF \E i \in 1..Len(rows) : rows[i].studentId = studentId /\ rows[i].date = Today(t)
    THEN CHOOSE i \in 1..Len(rows) : rows[i].studentId = studentId /\ rows[i].date = Today(t)
    ELSE 0

\* C25: after every step the attendance list has at most one record per
\* (studentId, date); a recording for a student who has a record of the day
\* sets present and method of that record and leaves the length of the list
\* and every other record as they were, and a recording for a student without
\* one adds one record.
C25_OnePerStudentDay ==
    [][/\ \A i, j \in 1..Len(attendance') :
             i # j => ~(/\ attendance'[i].studentId = attendance'[j].studentId
                        /\ attendance'[i].date = attendance'[j].date)
       /\ (nreq' = nreq + 1 /\ last'.kind = "success") =>
             LET k == RecordOf(attendance, last'.studentId, now)
             IN  IF k # 0
                 THEN /\ Len(attendance') = Len(attendance)
                      /\ attendance'[k].present = last'.present
                      /\ attendance'[k].method = last'.method
                      /\ attendance'[k].studentId = attendance[k].studentId
                      /\ attendance'[k].date = attendance[k].date
                      /\ \A i \in 1..Len(attendance) : i # k => attendance'[i] = attendance[i]
                 ELSE /\ Len(attendance') = Len(attendance) + 1
                      /\ SubSeq(attendance', 1, Len(attendance)) = attendance
                      /\ RecordOf(attendance', last'.studentId, now) = Len(attendance')
      ]_vars

\* A student was recorded twice on one day, by two methods, and once the day
\* after: two records, the first with the second method.
C25_Witness ==
    /\ Len(attendance) = 2
    /\ nreq = 3
    /\ attendance[1].studentId = attendance[2].studentId
    /\ attendance[1].updatedAt.t = "date"
    /\ attendance[1].method = Str("face_recognition")
    /\ attendance[1].date # attendance[2].date

\* The ids of a collection are pairwise distinct.
DistinctIds(rows) == \A i, j \in 1..Len(rows) : i # j => rows[i].id # rows[j].id

\* C26: in every state reached by calls of createDC, createStudent and
\* createComplaint (and of the other methods) from the default data, the ids
\* of dcs, of students and of complaints are pairwise distinct, the record at
\* place i having id i.
C26_DistinctIds ==
    /\ DistinctIds(dcs) /\ DistinctIds(students) /\ DistinctIds(complaints)
    /\ \A i \in 1..Len(dcs) : dcs[i].id = Whole(i)
    /\ \A i \in 1..Len(students) : students[i].id = Whole(i)
    /\ \A i \in 1..Len(complaints) : complaints[i].id = Whole(i)

\* Records were created in two collections, one of them after the defaults.
C26_Witness ==
    /\ Len(students) = Len(getDefaultStudents) + 1
    /\ Len(dcs) = 1
    /\ last.op = "createStudent"

====
